---- MODULE Spec2Model ----
(***************************************************************************)
(* Model of the data-contract validation engine of the repository:         *)
(*   - validate_schema     (src/src/utils.py)                              *)
(*   - validate_data.main  (src/scripts/validate_data.py)                  *)
(*                                                                         *)
(* Python dicts are modelled as sequences of <<key, value>> pairs (they    *)
(* keep insertion order and have unique keys); a DataFrame is a sequence   *)
(* of <<column name, values>> pairs with unique column names, all columns  *)
(* having the same number of rows.                                         *)
(***************************************************************************)
EXTENDS Integers, Sequences, FiniteSets, TLC

VARIABLES
    \* ---- validate_schema and its caller
    contract,       \* the contract dict handed to validate_schema
    df,             \* the DataFrame handed to validate_schema
    pc,             \* "idle" | "loop" | "raised"
    schema,         \* local: contract.get("schema", {})
    k,              \* local: position of the for loop in schema.items()
    errors,         \* local: the list of violations being built
    results,        \* the (success, violations) pairs returned so far
    same,           \* the caller passed the same (df, contract) as last time
    \* ---- validate_data.main
    mpc,            \* program point of main
    exists,         \* the files that exist on disk
    suite_dict,     \* json.load of the suite file
    n,              \* position of the for loop in suite_dict["expectations"]
    expectation_count,
    applied,        \* the expectations held by the validator, in order
    executed,       \* suite positions whose expectation method was called
    result,         \* what validator.validate() returned
    printed,        \* the report lines 84-87 were printed
    docs,           \* outcome of the data docs step
    exit_code       \* process exit code, -1 while running

schema_vars == <<contract, df, pc, schema, k, errors, results, same>>
main_vars == <<mpc, exists, suite_dict, n, expectation_count, applied,
               executed, result, printed, docs, exit_code>>
vars == <<schema_vars, main_vars>>

\* ------------------------------------------------------------------ bounds
MaxRows == 2

\* ----------------------------------------------------------- Python values
NULL == "NaN"
Values == {NULL, "v"}
\* Python's None, as the empty tuple so that it compares with the other values
None == <<>>

\* Columns a contract may name, and all columns a dataset may carry.
ContractCols == {"a", "b"}
AllCols == ContractCols \cup {"x"}

\* dict.get(key, default)
DictGet(d, key, default) ==
    IF \E j \in 1..Len(d) : d[j][1] = key
    THEN d[CHOOSE j \in 1..Len(d) : d[j][1] = key][2]
    ELSE default

\* key in dict / column in df.columns
Has(d, key) == \E j \in 1..Len(d) : d[j][1] = key

Keys(d) == {d[j][1] : j \in 1..Len(d)}

\* Sequences without repetition over a set of names
Arrangements(S) ==
    {s \in UNION {[1..m -> S] : m \in 0..Cardinality(S)} :
        \A p, q \in 1..Len(s) : p # q => s[p] # s[q]}

RuleSets == {<<>>, << <<"nullable", TRUE>> >>, << <<"nullable", FALSE>> >>}

Schemas ==
    UNION {{[j \in 1..Len(cs) |-> <<cs[j], f[j]>>] : f \in [1..Len(cs) -> RuleSets]} :
           cs \in Arrangements(ContractCols)}

\* A contract with no "schema" key, or one with a schema.
Contracts == {<<>>} \cup {<< <<"schema", s>> >> : s \in Schemas}

DatasetsWith(r) ==
    UNION {{[j \in 1..Len(cs) |-> <<cs[j], f[j]>>] :
                f \in [1..Len(cs) -> [1..r -> Values]]} :
           cs \in Arrangements(AllCols)}

Datasets == UNION {DatasetsWith(r) : r \in 0..MaxRows}

\* ------------------------------------------------------- validate_schema
\* Variant: the list outlives the call (a module-level or default-argument list).
KeepErrors(prev) == prev

\* errors = []
NewErrors(prev) == <<>>

\* schema = contract.get("schema", {})
GetSchema(c) == DictGet(c, "schema", <<>>)

\* column not in df.columns
ColumnMissing(d, column) == ~Has(d, column)

\* the `continue` of the missing-column branch: the rest of the body is skipped
SkipsNullCheck(d, column) == ColumnMissing(d, column)

\* Variant: rules.get("nullable", False).
RulesNullableDefaultFalse(rules) == DictGet(rules, "nullable", FALSE)

\* rules.get("nullable", True)
RulesNullable(rules) == DictGet(rules, "nullable", TRUE)

\* Variant: series.isnull().all().
IsNullAll(series) == \A r \in 1..Len(series) : series[r] = NULL

\* series.isnull().any()
IsNullAny(series) == \E r \in 1..Len(series) : series[r] = NULL

\* Variant: df.isnull().any().any(), nulls anywhere in the frame.
FrameHasNull(d, column) == \E j \in 1..Len(d) : IsNullAny(d[j][2])

\* df[column].isnull().any(), for a column of df
ColumnHasNull(d, column) == IsNullAny(DictGet(d, column, <<>>))

\* f"Missing required column: {column}"
MissingError(column) == <<"Missing required column: ", column>>

\* f"Column {column} has null values but nullable=false"
NullError(column) == <<"Column ", column, " has null values but nullable=false">>

\* Variant: errors.insert(0, e).
PrependError(errs, e) == <<e>> \o errs

\* errors.append(e)
AppendError(errs, e) == Append(errs, e)

\* Variant: len(errors) <= 1.
SuccessAtMostOne(errs) == Len(errs) <= 1

\* len(errors) == 0
Success(errs) == Len(errs) = 0

\* One iteration of `for column, rules in schema.items()`: the new errors
\* list, and whether the body raised (df[column] of an absent column is a
\* KeyError; `not nullable and ...` evaluates df[column] only when the
\* column is not nullable).
LoopBody(d, errs, column, rules) ==
    LET errs1 == IF ColumnMissing(d, column)
                 THEN AppendError(errs, MissingError(column))
                 ELSE errs
    IN  IF SkipsNullCheck(d, column) THEN [errors |-> errs1, raised |-> FALSE]
        ELSE IF RulesNullable(rules) THEN [errors |-> errs1, raised |-> FALSE]
        ELSE IF ~Has(d, column) THEN [errors |-> errs1, raised |-> TRUE]
        ELSE IF ColumnHasNull(d, column)
             THEN [errors |-> AppendError(errs1, NullError(column)), raised |-> FALSE]
             ELSE [errors |-> errs1, raised |-> FALSE]

\* return len(errors) == 0, errors
ReturnValue(errs) == <<Success(errs), errs>>

\* The caller invokes validate_schema(df, contract): lines 12-13.
Call ==
    /\ pc = "idle"
    /\ Len(results) < 2
    /\ errors' = NewErrors(errors)
    /\ schema' = GetSchema(contract)
    /\ k' = 1
    /\ pc' = "loop"
    /\ UNCHANGED <<contract, df, results, same, main_vars>>

\* One pass through the loop body: lines 15-22.
Iterate ==
    /\ pc = "loop"
    /\ k <= Len(schema)
    /\ LET out == LoopBody(df, errors, schema[k][1], schema[k][2])
       IN  /\ errors' = out.errors
           /\ pc' = IF out.raised THEN "raised" ELSE "loop"
    /\ k' = k + 1
    /\ UNCHANGED <<contract, df, schema, results, same, main_vars>>

\* The loop is exhausted: line 24.
Return ==
    /\ pc = "loop"
    /\ k > Len(schema)
    /\ results' = Append(results, ReturnValue(errors))
    /\ pc' = "idle"
    /\ UNCHANGED <<contract, df, schema, k, errors, same, main_vars>>

\* Between two calls the caller may pass a dataset that differs only outside
\* the contract's columns: another column order, or a column the contract
\* does not name dropped, added or rewritten.
NRows(d) == IF Len(d) = 0 THEN 0 ELSE Len(d[1][2])
Reverse(d) == [j \in 1..Len(d) |-> d[Len(d) + 1 - j]]
Without(d, c) == SelectSeq(d, LAMBDA e : e[1] # c)
Variants(d, c) ==
       {Reverse(d)}
    \cup {Without(d, x) : x \in Keys(d) \ Keys(GetSchema(c))}
    \cup UNION {{Append(d, <<x, v>>), <<<<x, v>>>> \o d} :
                    x \in (AllCols \ Keys(d)) \ Keys(GetSchema(c)),
                    v \in [1..NRows(d) -> Values]}

Reload ==
    /\ pc = "idle"
    /\ Len(results) = 1
    /\ \E d \in Variants(df, contract) :
          /\ d # df
          /\ df' = d
    /\ same' = FALSE
    /\ UNCHANGED <<contract, pc, schema, k, errors, results, main_vars>>

\* ------------------------------------------------------------------ main
MainInitial ==
    /\ mpc = "start"
    /\ suite_dict = <<>>
    /\ n = 0
    /\ expectation_count = 0
    /\ applied = <<>>
    /\ executed = <<>>
    /\ result = <<>>
    /\ printed = FALSE
    /\ docs = "none"
    /\ exit_code = -1

\* ------------------------------------------------------- specifications
Init ==
    /\ contract \in Contracts
    /\ df \in Datasets
    /\ pc = "idle"
    /\ schema = <<>>
    /\ k = 1
    /\ errors = <<>>
    /\ results = <<>>
    /\ same = TRUE
    /\ exists = {}
    /\ MainInitial

Next == Call \/ Iterate \/ Return \/ Reload

Spec == Init /\ [][Next]_vars

\* ------------------------------------------------------------------ bounds
MaxSuite == 3

\* ---------------------------------------------------- the suite document
\* Names an entry of the suite may give as its expectation_type: one the
\* validator has as a method, one it does not have at all, and one it has as
\* an attribute that is not callable.
ExpectationMethods == {"expect_column_values_to_not_be_null"}
OtherAttributes == {"__doc__"}
UnknownNames == {"expect_no_such_rule"}
TypeNames == ExpectationMethods \cup OtherAttributes \cup UnknownNames

\* The kwargs of an entry, by what running the rule with them on the loaded
\* data does: the rule passes, fails, or the call raises.
KwargsValues == {"kw_pass", "kw_fail", "kw_raise"}

\* An entry is a dict that may lack either key.
Entries ==
    {t \o w : t \in {<<>>} \cup {<< <<"expectation_type", x>> >> : x \in TypeNames},
              w \in {<<>>} \cup {<< <<"kwargs", x>> >> : x \in KwargsValues}}

SuiteLists == UNION {[1..m -> Entries] : m \in 0..MaxSuite}

\* json.load(f) of a well-formed file: a dict with or without "expectations"
SuiteDicts == {<<>>} \cup {<< <<"expectations", l>> >> : l \in SuiteLists}

\* hasattr(validator, expectation_type)
HasAttr(name) == name \in ExpectationMethods \cup OtherAttributes

\* whether getattr(validator, expectation_type) can be called
IsCallable(name) == name \in ExpectationMethods

\* expectation_method(**kwargs): the rule runs on the data at once
Outcome(name, kwargs) ==
    CASE kwargs = "kw_pass" -> "pass"
      [] kwargs = "kw_fail" -> "fail"
      [] OTHER -> "raise"

\* sys.exit(code), or an exception nothing catches (Python then exits with 1)
Exit(code) ==
    /\ mpc' = "exited"
    /\ exit_code' = code

\* d[key]; an absent key is a KeyError, which the callers test for with Has
Subscript(d, key) == DictGet(d, key, "KeyError")

ExpectationsList == DictGet(suite_dict, "expectations", <<>>)

\* Variant: the loop breaks after a rule that failed.
StopOnFailure(pos, outcome) ==
    IF outcome = "fail" THEN Len(ExpectationsList) + 1 ELSE pos + 1

\* The for loop goes on to the next entry whatever the call returned.
NextEntry(pos, outcome) == pos + 1

\* lines 15-17
DatasetMissing ==
    /\ mpc = "start"
    /\ "dataset" \notin exists
    /\ Exit(1)
    /\ UNCHANGED <<schema_vars, exists, suite_dict, n, expectation_count, applied,
                   executed, result, printed, docs>>

\* lines 19-22: gx.get_context() is outside every try
GetContext ==
    /\ mpc = "start"
    /\ "dataset" \in exists
    /\ \E raises \in BOOLEAN :
          IF raises THEN Exit(1) ELSE mpc' = "load" /\ UNCHANGED exit_code
    /\ UNCHANGED <<schema_vars, exists, suite_dict, n, expectation_count, applied,
                   executed, result, printed, docs>>

\* lines 25-33
LoadData ==
    /\ mpc = "load"
    /\ \E raises \in BOOLEAN :
          IF raises THEN Exit(1) ELSE mpc' = "suite" /\ UNCHANGED exit_code
    /\ UNCHANGED <<schema_vars, exists, suite_dict, n, expectation_count, applied,
                   executed, result, printed, docs>>

\* lines 37-40: SystemExit is not an Exception, the handler lets it through
SuiteMissing ==
    /\ mpc = "suite"
    /\ "suite" \notin exists
    /\ Exit(1)
    /\ UNCHANGED <<schema_vars, exists, suite_dict, n, expectation_count, applied,
                   executed, result, printed, docs>>

\* lines 42-43, 61-65: json.load raises on a malformed file
SuiteMalformed ==
    /\ mpc = "suite"
    /\ "suite" \in exists
    /\ Exit(1)
    /\ UNCHANGED <<schema_vars, exists, suite_dict, n, expectation_count, applied,
                   executed, result, printed, docs>>

\* lines 42-50: the suite is read, the validator created and the loop entered;
\* read_dataframe may raise and suite_dict["expectations"] is a KeyError when
\* the key is absent
LoadSuite ==
    /\ mpc = "suite"
    /\ "suite" \in exists
    /\ \E d \in SuiteDicts, raises \in BOOLEAN :
          /\ suite_dict' = d
          /\ IF raises \/ ~Has(d, "expectations")
             THEN Exit(1) /\ UNCHANGED <<n, expectation_count>>
             ELSE /\ mpc' = "loop"
                  /\ expectation_count' = 0
                  /\ n' = 1
                  /\ UNCHANGED exit_code
    /\ UNCHANGED <<schema_vars, exists, applied, executed, result, printed, docs>>

\* lines 51-52, 55-58 when something raises: a key of the entry is absent,
\* the attribute is not callable, or the rule itself raises; lines 61-65
ApplyRaises ==
    /\ mpc = "loop"
    /\ n <= Len(ExpectationsList)
    /\ LET exp_config == ExpectationsList[n]
           expectation_type == Subscript(exp_config, "expectation_type")
           kwargs == Subscript(exp_config, "kwargs")
       IN  \/ ~Has(exp_config, "expectation_type")
           \/ ~Has(exp_config, "kwargs")
           \/ /\ Has(exp_config, "expectation_type")
              /\ Has(exp_config, "kwargs")
              /\ HasAttr(expectation_type)
              /\ \/ ~IsCallable(expectation_type)
                 \/ Outcome(expectation_type, kwargs) = "raise"
    /\ Exit(1)
    /\ UNCHANGED <<schema_vars, exists, suite_dict, n, expectation_count, applied,
                   executed, result, printed, docs>>

\* lines 51-58: the expectation method is found and applied
ApplyExpectation ==
    /\ mpc = "loop"
    /\ n <= Len(ExpectationsList)
    /\ LET exp_config == ExpectationsList[n]
           expectation_type == Subscript(exp_config, "expectation_type")
           kwargs == Subscript(exp_config, "kwargs")
       IN  /\ Has(exp_config, "expectation_type")
           /\ Has(exp_config, "kwargs")
           /\ HasAttr(expectation_type)
           /\ IsCallable(expectation_type)
           /\ Outcome(expectation_type, kwargs) # "raise"
           /\ applied' = Append(applied, exp_config)
           /\ executed' = Append(executed, n)
           /\ expectation_count' = expectation_count + 1
           /\ n' = NextEntry(n, Outcome(expectation_type, kwargs))
    /\ UNCHANGED <<schema_vars, mpc, exists, suite_dict, result, printed, docs, exit_code>>

\* lines 51-55: hasattr is false, nothing is applied or counted
SkipExpectation ==
    /\ mpc = "loop"
    /\ n <= Len(ExpectationsList)
    /\ LET exp_config == ExpectationsList[n]
       IN  /\ Has(exp_config, "expectation_type")
           /\ Has(exp_config, "kwargs")
           /\ ~HasAttr(Subscript(exp_config, "expectation_type"))
    /\ n' = n + 1
    /\ UNCHANGED <<schema_vars, mpc, exists, suite_dict, expectation_count, applied,
                   executed, result, printed, docs, exit_code>>

\* line 60
LoopDone ==
    /\ mpc = "loop"
    /\ n > Len(ExpectationsList)
    /\ mpc' = "validate"
    /\ UNCHANGED <<schema_vars, exists, suite_dict, n, expectation_count, applied,
                   executed, result, printed, docs, exit_code>>

\* What the validator reports for the rules it holds: every one of them is
\* evaluated, and the percentage is left undefined when there is none.
Passed(rules) ==
    Cardinality({j \in 1..Len(rules) :
        Outcome(Subscript(rules[j], "expectation_type"),
                Subscript(rules[j], "kwargs")) = "pass"})

Statistics(rules) ==
    LET evaluated == Len(rules)
        successful == Passed(rules)
    IN  [evaluated_expectations |-> evaluated,
         successful_expectations |-> successful,
         unsuccessful_expectations |-> evaluated - successful,
         success_percent |-> IF evaluated = 0 THEN None
                             ELSE <<100 * successful, evaluated>>]

ValidationResult(rules) ==
    [success |-> Statistics(rules).unsuccessful_expectations = 0,
     statistics |-> Statistics(rules)]

\* lines 69-75
Validate ==
    /\ mpc = "validate"
    /\ \E raises \in BOOLEAN :
          IF raises THEN Exit(1) /\ UNCHANGED result
          ELSE /\ result' = <<ValidationResult(applied)>>
               /\ mpc' = "report"
               /\ UNCHANGED exit_code
    /\ UNCHANGED <<schema_vars, exists, suite_dict, n, expectation_count, applied,
                   executed, printed, docs>>

\* f"{stats['success_percent']:.1f}": a number formats, None is a TypeError
Formats(percent) == percent # None

\* lines 78-87: nothing catches an exception raised here
Report ==
    /\ mpc = "report"
    /\ IF Formats(result[1].statistics.success_percent)
       THEN mpc' = "docs" /\ printed' = TRUE /\ UNCHANGED exit_code
       ELSE Exit(1) /\ UNCHANGED printed
    /\ UNCHANGED <<schema_vars, exists, suite_dict, n, expectation_count, applied,
                   executed, result, docs>>

\* lines 90-99: build_data_docs raises, or does or does not leave the file
BuildDocs ==
    /\ mpc = "docs"
    /\ \E outcome \in {"raised", "created", "not_created"} : docs' = outcome
    /\ mpc' = "exit"
    /\ UNCHANGED <<schema_vars, exists, suite_dict, n, expectation_count, applied,
                   executed, result, printed, exit_code>>

\* sys.exit(0 if success else 1)
ExitCode(success) == IF success THEN 0 ELSE 1

\* line 102
Finish ==
    /\ mpc = "exit"
    /\ Exit(ExitCode(result[1].success))
    /\ UNCHANGED <<schema_vars, exists, suite_dict, n, expectation_count, applied,
                   executed, result, printed, docs>>

InitMain ==
    /\ contract = <<>>
    /\ df = <<>>
    /\ pc = "idle"
    /\ schema = <<>>
    /\ k = 1
    /\ errors = <<>>
    /\ results = <<>>
    /\ same = TRUE
    /\ exists \in SUBSET {"dataset", "suite"}
    /\ MainInitial

NextMain ==
    \/ DatasetMissing \/ GetContext \/ LoadData
    \/ SuiteMissing \/ SuiteMalformed \/ LoadSuite
    \/ ApplyRaises \/ ApplyExpectation \/ SkipExpectation \/ LoopDone
    \/ Validate \/ Report \/ BuildDocs \/ Finish

SpecMain == InitMain /\ [][NextMain]_vars

\* ------------------------------------------------ what the claims speak of
\* The contract's schema as declared, read off the contract directly.
Declared(c) == IF c = <<>> THEN <<>> ELSE c[1][2]
DeclaredCols(c) == {Declared(c)[j][1] : j \in 1..Len(Declared(c))}
Position(c, column) == CHOOSE j \in 1..Len(Declared(c)) : Declared(c)[j][1] = column
Present(d, column) == \E j \in 1..Len(d) : d[j][1] = column
NonNullable(rules) == \E j \in 1..Len(rules) : rules[j] = <<"nullable", FALSE>>
NullIn(d, column) ==
    \E j \in 1..Len(d) : d[j][1] = column /\ \E r \in 1..Len(d[j][2]) : d[j][2][r] = NULL
Violating(c, d) ==
    {j \in 1..Len(Declared(c)) :
        \/ ~Present(d, Declared(c)[j][1])
        \/ NonNullable(Declared(c)[j][2]) /\ NullIn(d, Declared(c)[j][1])}
About(errs, column) == {p \in 1..Len(errs) : errs[p][2] = column}

\* The last call has returned and its result is that of the current df.
Returned == pc = "idle" /\ results # <<>> /\ (same \/ Len(results) = 2)
Last == results[Len(results)]

\* C1: success is TRUE exactly when the violations list is empty; the result
\* is (True, []) whenever every contract column is present and no
\* nullable=false column holds a null, and always for an empty schema.
C1_SuccessIffNoViolations ==
    Returned =>
        /\ Last[1] = (Last[2] = <<>>)
        /\ (Violating(contract, df) = {} => Last = <<TRUE, <<>>>>)
        /\ (Declared(contract) = <<>> => Last = <<TRUE, <<>>>>)

C1_Witness ==
    /\ Returned
    /\ Len(Declared(contract)) = 2
    /\ \E j \in 1..2 : NonNullable(Declared(contract)[j][2])
    /\ Violating(contract, df) = {}
    /\ \E j \in 1..Len(df) : \E r \in 1..Len(df[j][2]) : df[j][2][r] = NULL
    /\ Last = <<TRUE, <<>>>>

\* C2: the number of violations is the number of contract columns that are
\* missing or non-nullable with a null; a contract column is the subject of
\* at most one violation, and a missing column only of the "Missing required
\* column" one.
C2_ViolationCount ==
    Returned =>
        /\ Len(Last[2]) = Cardinality(Violating(contract, df))
        /\ \A column \in DeclaredCols(contract) :
              /\ Cardinality(About(Last[2], column)) <= 1
              /\ ~Present(df, column) =>
                    \A p \in About(Last[2], column) : Last[2][p] = MissingError(column)

C2_Witness ==
    /\ Returned
    /\ Len(Last[2]) = 2
    /\ \E column \in DeclaredCols(contract) :
          /\ ~Present(df, column)
          /\ NonNullable(Declared(contract)[Position(contract, column)][2])
    /\ \E column \in DeclaredCols(contract) : NullIn(df, column)

\* C3: violations are listed in the order the contract declares their
\* columns, whatever the order of the dataset's columns and whatever their
\* kind.
C3_ContractOrder ==
    Returned =>
        \A p, q \in 1..Len(Last[2]) :
            p < q => Position(contract, Last[2][p][2]) < Position(contract, Last[2][q][2])

C3_Witness ==
    /\ Returned
    /\ Len(Last[2]) = 2
    /\ Len(Last[2][1]) # Len(Last[2][2])
    /\ Len(df) = 2
    /\ df[1][1] = Declared(contract)[2][1]

\* C4: datasets that agree on the contract's columns get the same result,
\* and no violation is about a column outside the contract.
C4_OtherColumnsIgnored ==
    /\ Len(results) = 2 => results[1] = results[2]
    /\ \A j \in 1..Len(results) : \A p \in 1..Len(results[j][2]) :
          results[j][2][p][2] \in DeclaredCols(contract)

C4_Witness ==
    /\ Len(results) = 2
    /\ ~same
    /\ results[2][2] # <<>>
    /\ \E j \in 1..Len(df) : df[j][1] \notin DeclaredCols(contract) /\ IsNullAny(df[j][2])

\* C5: two successive calls with the same dataset and contract return the
\* same pair, and no step of validate_schema changes the dataset or the
\* contract.
C5_Idempotent ==
    /\ [](Len(results) = 2 /\ same => results[1] = results[2])
    /\ [][pc = "loop" \/ pc' = "loop" => df' = df /\ contract' = contract]_vars

C5_Witness ==
    /\ Len(results) = 2
    /\ same
    /\ Len(results[2][2]) = 2

\* C10: validate_schema never raises, also for an empty rule set, a rule set
\* without "nullable" and a contract without "schema"; a column whose rule
\* set does not give "nullable" never gets a null-value violation.
C10_NeverRaises ==
    /\ pc # "raised"
    /\ \A j \in 1..Len(Declared(contract)) :
          Declared(contract)[j][2] = <<>> =>
              \A p \in 1..Len(errors) : errors[p] # NullError(Declared(contract)[j][1])

C10_Witness ==
    /\ Returned
    /\ \E j \in 1..Len(Declared(contract)) :
          /\ Declared(contract)[j][2] = <<>>
          /\ NullIn(df, Declared(contract)[j][1])
    /\ Last = <<TRUE, <<>>>>

\* ---------------------------------------------- the claims about main
TypeOf(entry) == Subscript(entry, "expectation_type")
WellFormed(entry) == Has(entry, "expectation_type") /\ Has(entry, "kwargs")
AfterLoop == mpc \in {"validate", "report", "docs", "exit"} \/ result # <<>>
\* positions of the suite whose rule name the validator has as an attribute
Recognised ==
    {j \in 1..Len(ExpectationsList) :
        TypeOf(ExpectationsList[j]) \in ExpectationMethods \cup OtherAttributes}
Increasing(seq) == \A p, q \in 1..Len(seq) : p < q => seq[p] < seq[q]
Range(seq) == {seq[p] : p \in 1..Len(seq)}
FailedAmong(positions) ==
    {j \in positions : Subscript(ExpectationsList[j], "kwargs") = "kw_fail"}
PassedAmong(positions) ==
    {j \in positions : Subscript(ExpectationsList[j], "kwargs") = "kw_pass"}

\* C6: an entry whose expectation_type is not a callable attribute of the
\* validator is skipped without ending the run, is not executed and is not
\* counted; after the loop the count is the number of entries whose rule
\* name is a callable attribute of the validator.
C6_UnrecognisedSkipped ==
    /\ [][(/\ mpc = "loop"
           /\ n <= Len(ExpectationsList)
           /\ WellFormed(ExpectationsList[n])
           /\ TypeOf(ExpectationsList[n]) \notin ExpectationMethods)
          => /\ mpc' = "loop"
             /\ n' = n + 1
             /\ expectation_count' = expectation_count
             /\ executed' = executed]_vars
    /\ [](AfterLoop =>
            /\ expectation_count <= Len(ExpectationsList)
            /\ expectation_count =
                  Cardinality({j \in 1..Len(ExpectationsList) :
                      TypeOf(ExpectationsList[j]) \in ExpectationMethods}))

\* C7 as stated: every invocation of the suite is executed, in the suite's
\* order, whatever the earlier ones returned.
C7_EveryEntryExecuted ==
    AfterLoop => executed = [j \in 1..Len(ExpectationsList) |-> j]

\* C7, amended: once the loop has finished, the invocations executed are
\* exactly those whose rule name is an attribute of the validator, each once
\* and in the suite's order, whatever the earlier ones returned; validate()
\* evaluates all of them and a failed rule only adds to the failed count.
C7_NoShortCircuit ==
    /\ AfterLoop =>
          /\ Increasing(executed)
          /\ Range(executed) = Recognised
    /\ result # <<>> =>
          /\ result[1].statistics.evaluated_expectations = Cardinality(Recognised)
          /\ result[1].statistics.unsuccessful_expectations =
                Cardinality(FailedAmong(Recognised))

C7_Witness ==
    /\ result # <<>>
    /\ Len(ExpectationsList) = 3
    /\ executed = <<1, 3>>
    /\ FailedAmong(Recognised) = {1}
    /\ result[1].statistics.evaluated_expectations = 2
    /\ result[1].statistics.unsuccessful_expectations = 1

\* C8: the process exits with 0 exactly when the validation result's success
\* flag is true and with 1 otherwise; a run that ends before validation ends
\* with 1 and runs no later step; the data docs step does not change the
\* exit code.
C8_ExitCode ==
    mpc = "exited" =>
        /\ exit_code \in {0, 1}
        /\ exit_code = 0 <=> (result # <<>> /\ result[1].success)
        /\ result = <<>> => ~printed /\ docs = "none"

\* C9: successful is the number of executed rules that passed, unsuccessful
\* is evaluated - successful, success is (unsuccessful = 0), success_percent
\* is 100 * successful / evaluated; with nothing evaluated success_percent
\* is still a defined value and the result is reported without error.
C9_Aggregate ==
    result # <<>> =>
        LET st == result[1].statistics
        IN  /\ st.successful_expectations = Cardinality(PassedAmong(Range(executed)))
            /\ st.unsuccessful_expectations =
                  st.evaluated_expectations - st.successful_expectations
            /\ result[1].success = (st.unsuccessful_expectations = 0)
            /\ st.evaluated_expectations > 0 =>
                  st.success_percent =
                      <<100 * st.successful_expectations, st.evaluated_expectations>>
            /\ st.evaluated_expectations = 0 =>
                  /\ st.success_percent # None
                  /\ mpc = "exited" => printed

====
